---- MODULE Spec2Model ----
(***************************************************************************)
(* Model of translate.py: the batcher generator, the LibreTranslate client *)
(* with its retry loop, and the accumulate / writeback loops of            *)
(* translate_docx.                                                         *)
(*                                                                         *)
(* A text is a sequence of one-character strings.  A paragraph (the        *)
(* writeback location) is identified by its position in the document's     *)
(* paragraph list, so id(paragraph) is that position.                      *)
(***************************************************************************)
EXTENDS Integers, Sequences, FiniteSets, TLC

VARIABLES
    all_paras,        \* translate_docx: list(iter_all_paragraphs(doc))
    translatable,     \* translate_docx: the non-blank ParaRefs
    docText,          \* paragraph.text of every paragraph of the document
    gen,              \* the suspended batcher generator
    pc,               \* where the running function is
    cur,              \* translate_docx: loop variable `batch`
    accum,            \* translate_docx: accum, id(paragraph) -> chunks
    w,                \* translate_docx: paragraphs visited by the writeback loop
    texts,            \* libretranslate_translate_batch: argument
    attempt,          \* libretranslate_translate_batch: loop variable
    translated_list,  \* value returned by libretranslate_translate_batch
    calls,            \* session.post calls issued by the running client call
    sleeps,           \* time.sleep durations of that call, in tenths of a second
    log,              \* lines printed by that call
    hist,             \* how each remote answer of that call compares to the contract
    reply,            \* the elements, as text, of the answer of the right count
                      \* that call received, if any
    emitted,          \* every batch the generator has yielded
    committed,        \* the calls of clear_and_set_paragraph_text, in order
    fellBack,         \* per finished client call: did it return at line 142
    nacc,             \* passes of the accumulate loop body so far
    conform,          \* did every accumulated call get one answer element per item
    paired            \* while conform: per accumulated item, the answer element
                      \* at the item's position in its batch

docVars == <<all_paras, translatable, docText, accum, w, cur, committed, fellBack>>
genVars == <<gen, emitted>>
callVars == <<texts, attempt, translated_list, calls, sleeps, log, hist, reply>>
obsVars == <<nacc, conform, paired>>
vars == <<all_paras, translatable, docText, gen, pc, cur, accum, w, texts, attempt,
          translated_list, calls, sleeps, log, hist, reply, emitted, committed, fellBack,
          nacc, conform, paired>>

\* ------------------------------------------------------------------ bounds
\* translate_docx: paragraphs of a document, and characters in all of them
MaxUnits == 2
MaxTotal == 3
\* translate_docx on short documents: characters in all paragraphs
ShortTotal == 2
\* batcher on its own: items, and characters in all of them
BatcherUnits == 3
BatcherTotal == 4
\* the limits handed to batcher range over 1..MaxChars and 1..MaxItems
MaxChars == 2
MaxItems == 2
\* libretranslate_translate_batch on its own: strings in one request
MaxTexts == 2

\* --------------------------------------------------------------- constants
RETRY_LIMIT == 4

Chars == {"a", " "}
Whitespace == {" "}

\* Python's None as a value of ParaRef.original_text.
NoneText == <<"None">>

\* ------------------------------------------------------------ pure helpers
Min(a, b) == IF a < b THEN a ELSE b

\* All sequences over S of length 0..n.
SeqsUpTo(S, n) == UNION {[1..k -> S] : k \in 0..n}

\* txt[lo:hi] for 0 <= lo, with hi clipped to len(txt) as Python slicing does.
Slice(txt, lo, hi) == SubSeq(txt, lo + 1, Min(hi, Len(txt)))

RECURSIVE LStrip(_)
LStrip(s) ==
    IF s # <<>> /\ Head(s) \in Whitespace THEN LStrip(Tail(s)) ELSE s

RECURSIVE RStrip(_)
RStrip(s) ==
    IF s # <<>> /\ s[Len(s)] \in Whitespace
    THEN RStrip(SubSeq(s, 1, Len(s) - 1))
    ELSE s

\* str.strip()
Strip(s) == RStrip(LStrip(s))

\* _is_blank without the strip(): only None and "" count as blank
IsBlankNoStrip(s) == (s = NoneText) \/ (s = <<>>)

\* _is_blank
IsBlank(s) == (s = NoneText) \/ (Strip(s) = <<>>)

\* it.original_text or ""
OrEmpty(s) == IF s = NoneText \/ s = <<>> THEN <<>> ELSE s

ParaRef(p, t) == [paragraph |-> p, original_text |-> t]

\* "".join(parts)
RECURSIVE Join(_)
Join(parts) == IF parts = <<>> THEN <<>> ELSE Head(parts) \o Join(Tail(parts))

\* The concatenation of a sequence of sequences.
RECURSIVE Flatten(_)
Flatten(bs) == IF bs = <<>> THEN <<>> ELSE Head(bs) \o Flatten(Tail(bs))

\* ------------------------------------------------------- batcher generator
\* The frame of a suspended batcher(items, max_total_chars, max_items):
\* at is the yield it is suspended at ("new" before the first next(),
\* "end" once exhausted), i the 1-based position of the loop variable `it`.
NewGen(its, mc, mi) ==
    [items |-> its, max_total_chars |-> mc, max_items |-> mi,
     at |-> "new", i |-> 0, batch |-> <<>>, total |-> 0, start |-> 0]

Yielded(g, where, b) == [gen |-> [g EXCEPT !.at = where], yielded |-> TRUE, batch |-> b]
Stopped(g) == [gen |-> [g EXCEPT !.at = "end"], yielded |-> FALSE, batch |-> <<>>]

RECURSIVE ForLoop(_)

\* the test of line 84 with >= for the character limit
OverflowsEager(b, total, n, mc, mi) == (Len(b) + 1 > mi) \/ (total + n >= mc)

\* the test of line 84 without its item-count half
OverflowsCharsOnly(b, total, n, mc, mi) == total + n > mc

\* (len(batch) + 1 > max_items) or (total + n > max_total_chars)   (line 84)
Overflows(b, total, n, mc, mi) == (Len(b) + 1 > mi) \/ (total + n > mc)

\* batch.insert(0, it) in place of line 90
AppendItemFront(b, it) == <<it>> \o b

\* batch.append(it)   (line 90)
AppendItem(b, it) == Append(b, it)

\* the slice of line 76 taken one character short
ChunkAtShort(g) ==
    LET it == g.items[g.i]
        txt == OrEmpty(it.original_text)
    IN  ParaRef(it.paragraph, Slice(txt, g.start, g.start + g.max_total_chars - 1))

\* ParaRef(it.paragraph, txt[start:start + max_total_chars])   (lines 76-79)
ChunkAt(g) ==
    LET it == g.items[g.i]
        txt == OrEmpty(it.original_text)
    IN  ParaRef(it.paragraph, Slice(txt, g.start, g.start + g.max_total_chars))

\* while start < n: yield [ParaRef(it.paragraph, chunk)]   (lines 75-81)
WhileLoop(g) ==
    LET n == Len(OrEmpty(g.items[g.i].original_text))
    IN  IF g.start < n
        THEN Yielded(g, "chunk", <<ChunkAt(g)>>)
        ELSE ForLoop(g)

\* One pass of `for it in items` from the item after g.i, up to the next
\* yield or the end of the generator (lines 59-94).
ForLoop(g) ==
    IF g.i >= Len(g.items)
    THEN IF g.batch # <<>> THEN Yielded(g, "last", g.batch) ELSE Stopped(g)
    ELSE LET h == [g EXCEPT !.i = g.i + 1]
             it == h.items[h.i]
             txt == OrEmpty(it.original_text)
             n == Len(txt)
         IN  IF IsBlank(txt)
             THEN ForLoop(h)
             ELSE IF n > h.max_total_chars
             THEN IF h.batch # <<>>
                  THEN Yielded(h, "flush", h.batch)
                  ELSE WhileLoop([h EXCEPT !.start = 0])
             ELSE IF Overflows(h.batch, h.total, n, h.max_total_chars, h.max_items)
             THEN IF h.batch # <<>>
                  THEN Yielded(h, "full", h.batch)
                  ELSE ForLoop([h EXCEPT !.batch = <<it>>, !.total = n])
             ELSE ForLoop([h EXCEPT !.batch = AppendItem(h.batch, it), !.total = h.total + n])

\* the while loop without line 80
AdvanceNone(g) == [g EXCEPT !.start = g.start]

\* start += max_total_chars   (line 80)
Advance(g) == [g EXCEPT !.start = g.start + g.max_total_chars]

\* lines 73-74 without the reset of line 72
AfterFlushKeep(g) == [g EXCEPT !.start = 0]

\* batch, total = [], 0 and start = 0   (lines 72-74)
AfterFlush(g) == [g EXCEPT !.batch = <<>>, !.total = 0, !.start = 0]

\* next(generator): resume after the yield the frame is suspended at.
Resume(g) ==
    CASE g.at = "new"   -> ForLoop(g)
      [] g.at = "flush" -> WhileLoop(AfterFlush(g))
      [] g.at = "chunk" -> WhileLoop(Advance(g))
      [] g.at = "full"  -> LET it == g.items[g.i]
                           IN  ForLoop([g EXCEPT !.batch = <<it>>,
                                                 !.total = Len(OrEmpty(it.original_text))])
      [] g.at = "last"  -> Stopped(g)
      [] OTHER          -> Stopped(g)

\* ------------------------------------------------- remote translation call
\* What one session.post(...) / raise_for_status() / r.json() can produce.
JStr(s) == [t |-> "str", v |-> s]
JNum(k) == [t |-> "num", n |-> k]
JNull == [t |-> "null"]
JList(l) == [t |-> "list", items |-> l]

JElems == {JStr(<<"x">>), JNum(12)}

Failure(k) == [kind |-> k]
Answer(tt) == [kind |-> "json", tt |-> tt]

\* data.get("translatedText") for a request carrying txts: absent, a string,
\* a number, or a list of any length up to one more than was asked for.
Outcomes(txts) ==
    {Failure("ConnectionError"), Failure("Timeout"), Failure("HTTPError"),
     Failure("JSONDecodeError")}
    \cup {Answer(JNull), Answer(JNum(7)), Answer(JStr(<<"x">>))}
    \cup {Answer(JList(l)) : l \in SeqsUpTo(JElems, Len(txts) + 1)}

DigitChar == <<"0", "1", "2", "3", "4", "5", "6", "7", "8", "9">>

RECURSIVE Digits(_)
Digits(k) ==
    IF k < 10 THEN <<DigitChar[k + 1]>>
    ELSE Digits(k \div 10) \o <<DigitChar[(k % 10) + 1]>>

\* str(x) for an element of the translatedText list
PyStr(x) ==
    CASE x.t = "str" -> x.v
      [] x.t = "num" -> Digits(x.n)
      [] OTHER       -> <<"N", "o", "n", "e">>

\* the try body without lines 128-129: a single-string answer raises too
RaisesOnString(o, txts) ==
    IF o.kind # "json" THEN TRUE
    ELSE IF o.tt.t = "list" THEN FALSE
    ELSE TRUE

\* Does the try body (lines 114-132) raise on this outcome?
Raises(o, txts) ==
    IF o.kind # "json" THEN TRUE
    ELSE IF o.tt.t = "list" THEN FALSE
    ELSE IF o.tt.t = "str" /\ Len(txts) = 1 THEN FALSE
    ELSE TRUE

\* The value the try body returns when it does not raise (lines 126-129).
Returned(o) ==
    IF o.tt.t = "list"
    THEN [k \in 1..Len(o.tt.items) |-> PyStr(o.tt.items[k])]
    ELSE <<o.tt.v>>

\* sleep_s = 1.5 * attempt, in tenths of a second
SleepTenths(a) == 15 * a

\* How a remote outcome compares to the remote contract (one translated string
\* per input string, or a single string when one string was sent): "ok" when
\* it conforms, "failed" for an error, a wrong type or a wrong count, "odd"
\* for a list of the right count holding a non-string.
Classify(o, txts) ==
    IF o.kind # "json" THEN "failed"
    ELSE IF o.tt.t = "str" THEN (IF Len(txts) = 1 THEN "ok" ELSE "failed")
    ELSE IF o.tt.t # "list" THEN "failed"
    ELSE IF Len(o.tt.items) # Len(txts) THEN "failed"
    ELSE IF \A k \in 1..Len(o.tt.items) : o.tt.items[k].t = "str" THEN "ok"
    ELSE "odd"

\* An answer element as text: a string is itself, a number its decimal digits.
ElemText(e) == IF e.t = "str" THEN e.v ELSE Digits(e.n)

\* The elements, as text, of an answer of the right count.
StringsOf(o) ==
    IF o.tt.t = "str" THEN <<o.tt.v>>
    ELSE [k \in 1..Len(o.tt.items) |-> ElemText(o.tt.items[k])]

\* The items of batch b, each with the answer element at its position.
PairUp(b, elems) ==
    [k \in 1..Len(b) |->
        [paragraph |-> b[k].paragraph, chunk |-> b[k].original_text, text |-> elems[k]]]

\* --------------------------------------- libretranslate_translate_batch
\* The frame of a client call that has just been entered (lines 104-111).
EnterCall(txts) ==
    /\ texts' = txts
    /\ attempt' = 1
    /\ translated_list' = <<>>
    /\ calls' = 0
    /\ sleeps' = <<>>
    /\ log' = <<>>
    /\ hist' = <<>>
    /\ reply' = <<>>

\* The call's frame is dropped once its caller has taken the returned list.
LeaveCall == EnterCall(<<>>)

\* One pass of the retry loop whose try body raises (lines 112-138).
AttemptRaises ==
    /\ pc = "attempt"
    /\ attempt <= RETRY_LIMIT
    /\ \E o \in Outcomes(texts) :
          /\ Raises(o, texts)
          /\ hist' = Append(hist, Classify(o, texts))
    /\ calls' = calls + 1
    /\ log' = Append(log, "WARN")
    /\ sleeps' = Append(sleeps, SleepTenths(attempt))
    /\ attempt' = attempt + 1
    /\ UNCHANGED <<pc, texts, translated_list, reply, fellBack>>
    /\ UNCHANGED <<all_paras, translatable, docText, accum, w, cur, committed>>
    /\ UNCHANGED genVars
    /\ UNCHANGED obsVars

\* One pass of the retry loop whose try body returns (lines 112-129).
AttemptReturns ==
    /\ pc = "attempt"
    /\ attempt <= RETRY_LIMIT
    /\ \E o \in Outcomes(texts) :
          /\ ~ Raises(o, texts)
          /\ hist' = Append(hist, Classify(o, texts))
          /\ reply' = IF Classify(o, texts) \in {"ok", "odd"} THEN StringsOf(o) ELSE reply
          /\ translated_list' = Returned(o)
    /\ calls' = calls + 1
    /\ pc' = "returned"
    /\ fellBack' = Append(fellBack, FALSE)
    /\ UNCHANGED <<texts, attempt, sleeps, log>>
    /\ UNCHANGED <<all_paras, translatable, docText, accum, w, cur, committed>>
    /\ UNCHANGED genVars
    /\ UNCHANGED obsVars

\* the fallback without the print of line 141
PrintNothing(l) == l

\* print(f"[ERROR] Gagal translate batch setelah retry. ...")   (line 141)
PrintError(l) == Append(l, "ERROR")

\* The loop is over: print the error and return the argument (lines 140-142).
GiveUp ==
    /\ pc = "attempt"
    /\ attempt > RETRY_LIMIT
    /\ log' = PrintError(log)
    /\ translated_list' = texts
    /\ pc' = "returned"
    /\ fellBack' = Append(fellBack, TRUE)
    /\ UNCHANGED <<texts, attempt, calls, sleeps, hist, reply>>
    /\ UNCHANGED <<all_paras, translatable, docText, accum, w, cur, committed>>
    /\ UNCHANGED genVars
    /\ UNCHANGED obsVars

\* ------------------------------------------------------------ translate_docx
\* translatable = [p for p in all_paras if not _is_blank(p.original_text)]
Translatable(paras) == SelectSeq(paras, LAMBDA p : ~ IsBlank(p.original_text))

\* batch_texts = [b.original_text for b in batch]
BatchTexts(b) == [k \in 1..Len(b) |-> b[k].original_text]

\* accum[key] = [ttxt] in place of line 175
SetDefaultOverwrite(acc, key, ttxt) ==
    IF key \in DOMAIN acc
    THEN [acc EXCEPT ![key] = <<ttxt>>]
    ELSE acc @@ (key :> <<ttxt>>)

\* accum.setdefault(key, []).append(ttxt)   (line 175)
SetDefaultAppend(acc, key, ttxt) ==
    IF key \in DOMAIN acc
    THEN [acc EXCEPT ![key] = Append(@, ttxt)]
    ELSE acc @@ (key :> <<ttxt>>)

\* zip(batch, reversed(translated_list)) in place of line 173
RECURSIVE ZipAccumulateReversed(_, _, _, _)
ZipAccumulateReversed(acc, b, tl, k) ==
    IF k > Min(Len(b), Len(tl)) THEN acc
    ELSE ZipAccumulateReversed(SetDefaultAppend(acc, b[k].paragraph, tl[Len(tl) + 1 - k]),
                               b, tl, k + 1)

\* for bref, ttxt in zip(batch, translated_list): ...  from pair k on
RECURSIVE ZipAccumulate(_, _, _, _)
ZipAccumulate(acc, b, tl, k) ==
    IF k > Min(Len(b), Len(tl)) THEN acc
    ELSE ZipAccumulate(SetDefaultAppend(acc, b[k].paragraph, tl[k]), b, tl, k + 1)

\* the next batch taken as soon as the client has returned, before the
\* accumulate loop has run
AtLoopHeadOrReturned == pc \in {"next", "returned"}

\* Control is at the head of `for batch in batcher(...)` (line 168).
AtLoopHead == pc = "next"

\* The head of `for batch in batcher(...)`: take the next batch and call the
\* client with its texts, or leave the loop (lines 168-170, 179).
NextBatch ==
    /\ AtLoopHead
    /\ LET r == Resume(gen)
       IN  /\ gen' = r.gen
           /\ IF r.yielded
              THEN /\ cur' = r.batch
                   /\ emitted' = Append(emitted, r.batch)
                   /\ EnterCall(BatchTexts(r.batch))
                   /\ pc' = "attempt"
              ELSE /\ pc' = "writeback"
                   /\ UNCHANGED <<cur, emitted>>
                   /\ UNCHANGED callVars
    /\ UNCHANGED <<all_paras, translatable, docText, accum, w, committed, fellBack>>
    /\ UNCHANGED obsVars

\* The rest of the loop body: accumulate the returned list (lines 173-177).
Accumulate ==
    /\ pc = "returned"
    /\ accum' = ZipAccumulate(accum, cur, translated_list, 1)
    /\ pc' = "next"
    /\ LeaveCall
    /\ nacc' = nacc + 1
    /\ conform' = (conform /\ hist[Len(hist)] \in {"ok", "odd"})
    /\ paired' = IF conform' THEN paired \o PairUp(cur, reply) ELSE <<>>
    /\ UNCHANGED <<all_paras, translatable, docText, w, cur, committed, fellBack>>
    /\ UNCHANGED genVars

\* `for pref in reversed(translatable)` in place of line 182
WritebackListReversed ==
    [k \in 1..Len(translatable) |-> translatable[Len(translatable) + 1 - k]]

\* a writeback loop walking every batch item instead of line 182's list
WritebackListItems == Flatten(emitted)

\* The list the writeback loop walks: `for pref in translatable` (line 182).
WritebackList == translatable

\* the writeback pass with `del accum[key]` added after the commit
WritebackPop ==
    /\ pc = "writeback"
    /\ w < Len(WritebackList)
    /\ LET pref == WritebackList[w + 1]
           key == pref.paragraph
       IN  IF key \in DOMAIN accum
           THEN /\ docText' = [docText EXCEPT ![key] = Join(accum[key])]
                /\ committed' = Append(committed, [paragraph |-> key, text |-> Join(accum[key])])
                /\ accum' = [q \in DOMAIN accum \ {key} |-> accum[q]]
           ELSE UNCHANGED <<docText, committed, accum>>
    /\ w' = w + 1
    /\ UNCHANGED <<all_paras, translatable, cur, pc, fellBack>>
    /\ UNCHANGED genVars
    /\ UNCHANGED callVars
    /\ UNCHANGED obsVars

\* One pass of the writeback loop (lines 182-186).
Writeback ==
    /\ pc = "writeback"
    /\ w < Len(WritebackList)
    /\ LET pref == WritebackList[w + 1]
           key == pref.paragraph
       IN  IF key \in DOMAIN accum
           THEN /\ docText' = [docText EXCEPT ![key] = Join(accum[key])]
                /\ committed' = Append(committed, [paragraph |-> key, text |-> Join(accum[key])])
           ELSE UNCHANGED <<docText, committed>>
    /\ w' = w + 1
    /\ UNCHANGED <<all_paras, translatable, accum, cur, pc, fellBack>>
    /\ UNCHANGED genVars
    /\ UNCHANGED callVars
    /\ UNCHANGED obsVars

\* doc.save(output_path) (lines 188-189).
Save ==
    /\ pc = "writeback"
    /\ w = Len(WritebackList)
    /\ pc' = "done"
    /\ UNCHANGED docVars
    /\ UNCHANGED genVars
    /\ UNCHANGED callVars
    /\ UNCHANGED obsVars

\* ----------------------------------------------------------- initial states
\* The values of ParaRef.original_text of at most n characters.
TextsUpTo(n) == SeqsUpTo(Chars, n) \cup {NoneText}

RECURSIVE SumLen(_)
SumLen(l) == IF l = <<>> THEN 0 ELSE Len(OrEmpty(Head(l))) + SumLen(Tail(l))

\* The lists of m texts holding at most budget characters in all.
RECURSIVE TextLists(_, _)
TextLists(m, budget) ==
    IF m = 0 THEN {<<>>}
    ELSE UNION {{Append(l, t) : t \in TextsUpTo(budget - SumLen(l))} :
                l \in TextLists(m - 1, budget)}

\* The paragraph lists: up to units paragraphs, paragraph k being the k-th
\* one, holding at most budget characters in all.
Documents(units, budget) ==
    UNION {{[k \in 1..m |-> ParaRef(k, l[k])] : l \in TextLists(m, budget)} :
           m \in 0..units}

NoCall ==
    /\ texts = <<>>
    /\ attempt = 1
    /\ translated_list = <<>>
    /\ calls = 0
    /\ sleeps = <<>>
    /\ log = <<>>
    /\ hist = <<>>
    /\ reply = <<>>

NoDocument ==
    /\ all_paras = <<>>
    /\ translatable = <<>>
    /\ docText = <<>>
    /\ accum = <<>>
    /\ w = 0
    /\ cur = <<>>
    /\ committed = <<>>
    /\ fellBack = <<>>
    /\ nacc = 0
    /\ conform = TRUE
    /\ paired = <<>>

\* translate_docx up to the creation of the generator (lines 155-168).
Init ==
    /\ all_paras \in Documents(MaxUnits, MaxTotal)
    /\ translatable = Translatable(all_paras)
    /\ docText = [k \in 1..Len(all_paras) |-> all_paras[k].original_text]
    /\ \E mc \in 1..MaxChars, mi \in 1..MaxItems : gen = NewGen(translatable, mc, mi)
    /\ pc = "next"
    /\ cur = <<>>
    /\ accum = <<>>
    /\ w = 0
    /\ emitted = <<>>
    /\ committed = <<>>
    /\ fellBack = <<>>
    /\ nacc = 0
    /\ conform = TRUE
    /\ paired = <<>>
    /\ NoCall

Next ==
    \/ NextBatch
    \/ AttemptRaises
    \/ AttemptReturns
    \/ GiveUp
    \/ Accumulate
    \/ Writeback
    \/ Save

Spec == Init /\ [][Next]_vars

\* translate_docx on the documents of at most ShortTotal characters.
InitShort ==
    /\ Init
    /\ SumLen([k \in 1..Len(all_paras) |-> all_paras[k].original_text]) <= ShortTotal

SpecShort == InitShort /\ [][Next]_vars

\* ------------------------------------------------ the batcher on its own
\* list(batcher(items, max_total_chars, max_items)) for any items and limits.
Drain ==
    /\ pc = "drain"
    /\ LET r == Resume(gen)
       IN  /\ gen' = r.gen
           /\ IF r.yielded
              THEN /\ emitted' = Append(emitted, r.batch)
                   /\ pc' = pc
              ELSE /\ pc' = "drained"
                   /\ UNCHANGED emitted
    /\ UNCHANGED docVars
    /\ UNCHANGED callVars
    /\ UNCHANGED obsVars

InitBatcher ==
    /\ \E its \in Documents(BatcherUnits, BatcherTotal), mc \in 1..MaxChars, mi \in 1..MaxItems :
          gen = NewGen(its, mc, mi)
    /\ pc = "drain"
    /\ emitted = <<>>
    /\ NoDocument
    /\ NoCall

NextBatcher == Drain

SpecBatcher == InitBatcher /\ [][NextBatcher]_vars

\* -------------------------------------------------- the client on its own
ClientTexts == SeqsUpTo(SeqsUpTo(Chars, 1), MaxTexts)

InitClient ==
    /\ texts \in ClientTexts
    /\ attempt = 1
    /\ translated_list = <<>>
    /\ calls = 0
    /\ sleeps = <<>>
    /\ log = <<>>
    /\ hist = <<>>
    /\ reply = <<>>
    /\ pc = "attempt"
    /\ gen = NewGen(<<>>, 1, 1)
    /\ emitted = <<>>
    /\ NoDocument

NextClient ==
    \/ AttemptRaises
    \/ AttemptReturns
    \/ GiveUp

SpecClient == InitClient /\ [][NextClient]_vars

\* ===================================================================== claims
\* Vocabulary of the claims, defined apart from the code's own helpers.

\* A text is blank: null, empty or whitespace-only.
Blank(t) == t = NoneText \/ \A k \in 1..Len(t) : t[k] \in Whitespace

Ceil(a, b) == (a + b - 1) \div b

\* The k-th of the contiguous slices of mc characters of txt.
SliceNo(txt, mc, k) == SubSeq(txt, (k - 1) * mc + 1, Min(k * mc, Len(txt)))

\* The items a unit must contribute to the batches: none when blank, its
\* slices in order when longer than mc, itself otherwise.
ItemsOf(u, mc) ==
    IF Blank(u.original_text) THEN <<>>
    ELSE IF Len(u.original_text) > mc
    THEN [k \in 1..Ceil(Len(u.original_text), mc) |->
            ParaRef(u.paragraph, SliceNo(u.original_text, mc, k))]
    ELSE <<u>>

RECURSIVE ExpectedItems(_, _)
ExpectedItems(units, mc) ==
    IF units = <<>> THEN <<>>
    ELSE ItemsOf(Head(units), mc) \o ExpectedItems(Tail(units), mc)

RECURSIVE PayloadLen(_)
PayloadLen(b) ==
    IF b = <<>> THEN 0 ELSE Len(Head(b).original_text) + PayloadLen(Tail(b))

IsPrefix(a, b) == Len(a) <= Len(b) /\ a = SubSeq(b, 1, Len(a))

\* The items of the emitted batches that belong to paragraph p, in emission order.
EmittedFor(p) == SelectSeq(Flatten(emitted), LAMBDA x : x.paragraph = p)

\* The text of the unit a batch item came from, when the batcher runs on its
\* own (there item k of the input is paragraph k).
SourceText(x) == OrEmpty(gen.items[x.paragraph].original_text)

\* ---------------------------------------------------------------------- C5
\* C5: every batch the batcher emits is non-empty and stays within both
\* limits (total payload length <= max_total_chars, item count <= max_items),
\* unless it is a singleton batch holding one chunk of an oversized unit.
C5_BatchWithinLimits ==
    \A j \in 1..Len(emitted) :
        LET b == emitted[j]
        IN  /\ b # <<>>
            /\ \/ (PayloadLen(b) <= gen.max_total_chars /\ Len(b) <= gen.max_items)
               \/ (Len(b) = 1 /\ Len(SourceText(b[1])) > gen.max_total_chars)

\* A drained run that emitted a batch filled to both limits, after another batch.
C5_Witness ==
    /\ pc = "drained"
    /\ \E j \in 2..Len(emitted) :
          /\ Len(emitted[j]) = gen.max_items
          /\ Len(emitted[j]) > 1
          /\ PayloadLen(emitted[j]) = gen.max_total_chars

\* ---------------------------------------------------------------------- C6
\* The chunks emitted for paragraph p are the ceil(L / max_chars) contiguous
\* slices of its text: each of max_chars characters but for a last one of
\* L - max_chars * (count - 1) > 0, joining up to the text.
SlicedExactly(p) ==
    LET txt == OrEmpty(gen.items[p].original_text)
        L == Len(txt)
        mc == gen.max_total_chars
        cs == EmittedFor(p)
        n == Ceil(L, mc)
    IN  /\ Len(cs) = n
        /\ \A k \in 1..Len(cs) :
              /\ cs[k].original_text = SubSeq(txt, (k - 1) * mc + 1, Min(k * mc, L))
              /\ k < n => Len(cs[k].original_text) = mc
              /\ k = n => /\ Len(cs[k].original_text) = L - mc * (n - 1)
                          /\ Len(cs[k].original_text) > 0
        /\ Join([k \in 1..Len(cs) |-> cs[k].original_text]) = txt

\* C6 as stated: for every unit whose text is longer than max_chars the
\* batcher emits exactly the ceil(L / max_chars) contiguous slices of it.
C6_AsStated ==
    pc = "drained" =>
        \A p \in 1..Len(gen.items) :
            Len(OrEmpty(gen.items[p].original_text)) > gen.max_total_chars
                => SlicedExactly(p)

\* C6 as amended: for every non-blank unit whose text is longer than
\* max_chars the batcher emits exactly the ceil(L / max_chars) contiguous
\* slices of it (a whitespace-only unit is skipped whatever its length).
C6_NonBlankSliced ==
    pc = "drained" =>
        \A p \in 1..Len(gen.items) :
            (/\ ~ Blank(gen.items[p].original_text)
             /\ Len(OrEmpty(gen.items[p].original_text)) > gen.max_total_chars)
                => SlicedExactly(p)

\* A drained run over a unit cut into a full chunk and a shorter last one.
C6_Witness ==
    /\ pc = "drained"
    /\ \E p \in 1..Len(gen.items) :
          /\ ~ Blank(gen.items[p].original_text)
          /\ Len(gen.items[p].original_text) > gen.max_total_chars
          /\ Len(gen.items[p].original_text) % gen.max_total_chars # 0
          /\ Len(EmittedFor(p)) >= 2

\* ---------------------------------------------------------------------- C7
\* C7: the emitted batches, flattened in emission order, are at every moment
\* a prefix of, and once the generator is exhausted equal to, the non-blank
\* input units in input order with each oversized unit replaced in place by
\* its slices in slice order.
C7_OrderPreserved ==
    LET want == ExpectedItems(gen.items, gen.max_total_chars)
    IN  /\ IsPrefix(Flatten(emitted), want)
        /\ pc = "drained" => Flatten(emitted) = want

\* A drained run over a blank unit, then a unit split in chunks, then a whole unit.
C7_Witness ==
    /\ pc = "drained"
    /\ \E p \in 1..Len(gen.items) :
          /\ p + 2 <= Len(gen.items)
          /\ Blank(gen.items[p].original_text)
          /\ Len(EmittedFor(p + 1)) >= 2
          /\ Len(EmittedFor(p + 2)) = 1

\* ---------------------------------------------------------------------- C1
\* C1: the list a client call returns has exactly as many strings as the
\* list it was given, whatever the remote service answered.
C1_SameLength ==
    pc = "returned" => Len(translated_list) = Len(texts)

\* ---------------------------------------------------------------------- C8
\* C8: a call whose RETRY_LIMIT attempts all failed (error, non-success
\* status, timeout, or an answer of the wrong type or count) has issued
\* exactly RETRY_LIMIT remote calls and returns its argument unchanged.
C8_ExhaustedReturnsOriginal ==
    (/\ pc = "returned"
     /\ Len(hist) = RETRY_LIMIT
     /\ \A k \in 1..Len(hist) : hist[k] = "failed")
        => (calls = RETRY_LIMIT /\ translated_list = texts)

\* ---------------------------------------------------------------------- C9
\* C9: when attempt k of a call receives a conforming answer (after k - 1
\* failed attempts), the call has returned that answer's strings, by the
\* try body and not by the fallback, and has issued exactly k remote calls.
C9_FirstSuccessReturned ==
    \A k \in 1..Len(hist) :
        hist[k] = "ok" =>
            /\ \A j \in 1..(k - 1) : hist[j] = "failed"
            /\ Len(hist) = k
            /\ calls = k
            /\ pc = "returned"
            /\ translated_list = reply
            /\ fellBack = <<FALSE>>
            /\ \A j \in 1..Len(log) : log[j] # "ERROR"

\* The last permitted attempt conforms, after RETRY_LIMIT - 1 failures, for a
\* request of two strings.
C9_Witness ==
    /\ pc = "returned"
    /\ Len(texts) = 2
    /\ Len(hist) = RETRY_LIMIT
    /\ hist[RETRY_LIMIT] = "ok"
    /\ translated_list # texts

\* ---------------------------------------------------------------------- C2
\* The paragraphs of the non-blank units, in input order.
NonBlankLocs(paras) ==
    LET keep == SelectSeq(paras, LAMBDA u : ~ Blank(u.original_text))
    IN  [k \in 1..Len(keep) |-> keep[k].paragraph]

CommittedLocs == [k \in 1..Len(committed) |-> committed[k].paragraph]

\* C2: when the run ends, the committed locations are exactly the locations
\* of the non-blank units, in input order.
C2_CommitsAreNonBlankUnits ==
    pc = "done" => CommittedLocs = NonBlankLocs(all_paras)

C4_NoDoubleCommit ==
    \A j, k \in 1..Len(committed) :
        committed[j].paragraph = committed[k].paragraph => j = k

\* A finished run that committed a unit split into chunks, and another unit.
C4_Witness ==
    /\ pc = "done"
    /\ Len(committed) = 2
    /\ \E k \in 1..Len(committed) : Len(EmittedFor(committed[k].paragraph)) >= 2

\* --------------------------------------------------------------------- C10
\* C10: a blank unit (null, empty or whitespace-only) is an item of no
\* emitted batch, no text of a remote call is taken from it, it is never
\* committed and the content at its location stays what it was.
C10_BlankUntouched ==
    \A p \in 1..Len(all_paras) :
        Blank(all_paras[p].original_text) =>
            /\ \A j \in 1..Len(emitted) :
                  \A k \in 1..Len(emitted[j]) : emitted[j][k].paragraph # p
            /\ pc = "attempt" =>
                  /\ Len(texts) = Len(cur)
                  /\ \A k \in 1..Len(cur) :
                        /\ cur[k].paragraph # p
                        /\ texts[k] = cur[k].original_text
            /\ \A k \in 1..Len(committed) : committed[k].paragraph # p
            /\ docText[p] = all_paras[p].original_text

\* A finished run over a whitespace-only unit and a unit that was committed.
C10_Witness ==
    /\ pc = "done"
    /\ committed # <<>>
    /\ \E p \in 1..Len(all_paras) :
          /\ all_paras[p].original_text # NoneText
          /\ Len(all_paras[p].original_text) >= 1
          /\ Blank(all_paras[p].original_text)

\* --------------------------------------------------------------------- C11
\* The waits of the call are backoff_base * k after failed attempt k (1.5 s
\* times k, in tenths of a second), so they strictly increase, and there are
\* at most RETRY_LIMIT attempts.
BackoffSchedule ==
    /\ calls <= RETRY_LIMIT
    /\ \A k \in 1..Len(sleeps) : sleeps[k] = 15 * k
    /\ \A j, k \in 1..Len(sleeps) : j < k => sleeps[j] < sleeps[k]

\* C11: in a finished call the waits follow the backoff schedule and every
\* wait was followed by a further remote attempt, so the call issued more
\* remote calls than it waited.
C11_EveryWaitThenRetry ==
    pc = "returned" => (BackoffSchedule /\ Len(sleeps) < calls)

PairedFor(p) == SelectSeq(paired, LAMBDA x : x.paragraph = p)

\* C13: when every batch call returned an answer with one element per item
\* (every well-formed successful answer is one), then at the end of the run
\* the items accumulated for a non-blank unit are the unit itself, or its
\* slices in slice order, and the text committed to the unit's location, and
\* left in the document, is the concatenation in that order of the elements
\* found at those items' positions in their answers, and of nothing else.
C13_CommittedIsPairedConcat ==
    (pc = "done" /\ conform) =>
        \A p \in 1..Len(all_paras) :
            ~ Blank(all_paras[p].original_text) =>
                LET pf == PairedFor(p)
                    want == Join([k \in 1..Len(pf) |-> pf[k].text])
                IN  /\ [k \in 1..Len(pf) |-> ParaRef(p, pf[k].chunk)]
                          = ItemsOf(all_paras[p], gen.max_total_chars)
                    /\ \E k \in 1..Len(committed) : committed[k].paragraph = p
                    /\ \A k \in 1..Len(committed) :
                          committed[k].paragraph = p => committed[k].text = want
                    /\ docText[p] = want

\* A finished run of well-formed answers only, over a unit split into two
\* chunks and a unit sent whole.
C13_Witness ==
    /\ pc = "done"
    /\ conform
    /\ \A k \in 1..Len(paired) : paired[k].text = <<"x">>
    /\ \E p \in 1..Len(all_paras) : Len(PairedFor(p)) = 2
    /\ \E p \in 1..Len(all_paras) : Len(PairedFor(p)) = 1
    /\ \E k \in 1..Len(committed) : committed[k].text = <<"x", "x">>

\* --------------------------------------------------------------------- C14
\* C14: a batch holding a chunk of a unit longer than max_chars holds nothing
\* else; when the unit's first chunk is emitted every item of the units
\* before it has been emitted already; the items of one unit are emitted
\* next to each other; and whenever a chunk has just been emitted the
\* pending batch is empty, with a running total of zero.
C14_OversizedAlone ==
    LET mc == gen.max_total_chars
        flat == Flatten(emitted)
    IN  /\ \A j \in 1..Len(emitted) :
              (\E k \in 1..Len(emitted[j]) : Len(SourceText(emitted[j][k])) > mc) =>
                  LET q == emitted[j][1].paragraph
                  IN  /\ Len(emitted[j]) = 1
                      /\ (\A h \in 1..(j - 1) : emitted[h][1].paragraph # q) =>
                            Flatten(SubSeq(emitted, 1, j - 1))
                                = ExpectedItems(SubSeq(gen.items, 1, q - 1), mc)
        /\ \A a, b \in 1..Len(flat) :
              (a < b /\ flat[a].paragraph = flat[b].paragraph) =>
                  \A c \in a..b : flat[c].paragraph = flat[a].paragraph
        /\ gen.at = "chunk" =>
              /\ gen.batch = <<>>
              /\ gen.total = 0
              /\ emitted[Len(emitted)][1].paragraph = gen.i

\* A drained run over a whole unit, then a unit split in chunks, then a whole
\* unit: the first batch was flushed for the chunks.
C14_Witness ==
    /\ pc = "drained"
    /\ \E p \in 1..Len(gen.items) :
          /\ p + 2 <= Len(gen.items)
          /\ Len(EmittedFor(p)) = 1
          /\ Len(EmittedFor(p + 1)) >= 2
          /\ Len(EmittedFor(p + 2)) = 1
          /\ Len(emitted) = 2 + Len(EmittedFor(p + 1))

\* --------------------------------------------------------------------- C15
\* C15: batches are handled one at a time in emission order.  While a client
\* call runs it is the call for the batch emitted last, carrying that
\* batch's texts, and every earlier batch has had its call finished and its
\* result accumulated; remote calls are issued at no other time; and at most
\* one client call is unfinished.
C15_OneBatchAtATime ==
    /\ Len(emitted) - Len(fellBack) \in {0, 1}
    /\ pc = "attempt" =>
          /\ Len(fellBack) = Len(emitted) - 1
          /\ nacc = Len(emitted) - 1
          /\ cur = emitted[Len(emitted)]
          /\ texts = [k \in 1..Len(cur) |-> cur[k].original_text]
    /\ pc = "returned" =>
          /\ Len(fellBack) = Len(emitted)
          /\ nacc = Len(emitted) - 1
          /\ cur = emitted[Len(emitted)]
    /\ pc \notin {"attempt", "returned"} =>
          /\ Len(fellBack) = Len(emitted)
          /\ nacc = Len(emitted)
          /\ calls = 0

\* The call for a third batch is retrying after the first batch fell back
\* and the second was translated, both accumulated.
C15_Witness ==
    /\ pc = "attempt"
    /\ Len(emitted) = 3
    /\ nacc = 2
    /\ fellBack = <<TRUE, FALSE>>
    /\ calls >= 1

\* --------------------------------------------------------------------- C16
\* C16: once anything has been committed the generator is exhausted, every
\* item the batcher owes for the translatable units has been emitted, every
\* emitted batch has had its call finished and its result accumulated, no
\* client call is running or can start again, and the locations committed
\* so far follow the order of the units in the document.
C16_CommitsAfterAllBatches ==
    committed # <<>> =>
        /\ pc \in {"writeback", "done"}
        /\ gen.at = "end"
        /\ Flatten(emitted) = ExpectedItems(translatable, gen.max_total_chars)
        /\ Len(fellBack) = Len(emitted)
        /\ nacc = Len(emitted)
        /\ calls = 0
        /\ \A j, k \in 1..Len(committed) :
              j < k => committed[j].paragraph < committed[k].paragraph

\* The writeback loop has committed the first of two units that were sent in
\* separate batches and has the second still to commit.
C16_Witness ==
    /\ pc = "writeback"
    /\ Len(committed) = 1
    /\ w < Len(translatable)
    /\ Len(emitted) >= 2
    /\ translatable[w + 1].paragraph \in DOMAIN accum

\* --------------------------------------------------------------------- C17
\* The unit x is emitted whole: its text is no longer than max_chars.
Whole(x) == Len(SourceText(x)) <= gen.max_total_chars

\* C17: a batch is closed only when it must be.  Whenever a batch B is
\* followed at once by a batch that starts with a whole unit u, B is a single
\* chunk of an oversized unit, or B with u added would hold more than
\* max_chars characters or more than max_items items: a whole unit that
\* fits is never made to start a new batch.  And every item appended to a
\* pending batch is a whole unit that fits within both limits.
C17_ClosedOnlyWhenFull ==
    LET mc == gen.max_total_chars
        mi == gen.max_items
    IN  /\ \A j \in 1..(Len(emitted) - 1) :
              LET B == emitted[j]
                  u == emitted[j + 1][1]
              IN  Whole(u) =>
                      \/ (Len(B) = 1 /\ ~ Whole(B[1]))
                      \/ PayloadLen(B) + Len(u.original_text) > mc
                      \/ Len(B) + 1 > mi
        /\ \A j \in 1..Len(emitted) :
              \A k \in 2..Len(emitted[j]) :
                  /\ Whole(emitted[j][k])
                  /\ PayloadLen(SubSeq(emitted[j], 1, k)) <= mc
                  /\ k <= mi

\* A drained run in which two whole units share a batch and a third, which
\* did not fit with them, starts the next one.
C17_Witness ==
    /\ pc = "drained"
    /\ \E j \in 1..(Len(emitted) - 1) :
          /\ Len(emitted[j]) = 2
          /\ Whole(emitted[j + 1][1])
          /\ PayloadLen(emitted[j]) + Len(emitted[j + 1][1].original_text)
                > gen.max_total_chars

\* --------------------------------------------------------------------- C18
\* The characters of the translatable units not yet emitted in a batch.
CharsLeft == PayloadLen(translatable) - PayloadLen(Flatten(emitted))

\* The steps the running client call and the accumulation of its result can
\* still take.
CallStepsLeft ==
    CASE pc = "attempt"  -> (RETRY_LIMIT + 1 - attempt) + 2
      [] pc = "returned" -> 1
      [] OTHER           -> 0

\* An upper bound on the steps the run can still take: every batch still to
\* come carries at least one character and costs at most RETRY_LIMIT + 3
\* steps, and the writeback loop visits each translatable unit once.
StepsLeft ==
    CASE pc = "done"      -> 0
      [] pc = "writeback" -> (Len(translatable) - w) + 1
      [] OTHER            -> CharsLeft * (RETRY_LIMIT + 3) + CallStepsLeft
                                 + Len(translatable) + 2

\* C18: the run terminates.  Every step lowers StepsLeft, which is never
\* negative, and a run that is not done can always take a step, whatever
\* the remote service answers; from one chunk of a unit to the next the
\* chunk offset strictly increases; and a client call makes at most RETRY_LIMIT remote
\* calls.
C18_RunTerminates ==
    /\ [](StepsLeft >= 0)
    /\ [](pc = "done" \/ ENABLED Next)
    /\ [](calls <= RETRY_LIMIT /\ attempt <= RETRY_LIMIT + 1)
    /\ [][StepsLeft' < StepsLeft]_vars
    /\ [][(gen' # gen /\ gen.at = "chunk" /\ gen'.at = "chunk" /\ gen'.i = gen.i)
            => gen'.start > gen.start]_vars

\* A finished run that cut a unit into chunks, had one call fall back after
\* RETRY_LIMIT failed attempts and another call succeed.
C18_Witness ==
    /\ pc = "done"
    /\ \E p \in 1..Len(all_paras) : Len(EmittedFor(p)) >= 2
    /\ \E j \in 1..Len(fellBack) : fellBack[j]
    /\ \E j \in 1..Len(fellBack) : ~ fellBack[j]
    /\ StepsLeft = 0

\* --------------------------------------------------------------------- C19
\* The running call has printed the error line.
ErrorLogged == \E k \in 1..Len(log) : log[k] = "ERROR"

\* Every remote attempt the call was allowed has been made and has failed.
RetriesExhausted ==
    /\ Len(hist) = RETRY_LIMIT
    /\ \A k \in 1..Len(hist) : hist[k] = "failed"

\* C19: a client call that returns its argument because its retries are
\* exhausted has printed the error line, as the last thing before it
\* returned; a call that returns what the service answered has printed no
\* error line; so the output of a returned call tells the two apart.
C19_FallbackIsLogged ==
    pc = "returned" =>
        /\ (RetriesExhausted /\ translated_list = texts) =>
              (ErrorLogged /\ log[Len(log)] = "ERROR" /\ fellBack[Len(fellBack)])
        /\ hist[Len(hist)] = "ok" => ~ ErrorLogged
        /\ ~ fellBack[Len(fellBack)] => ~ ErrorLogged
        /\ ErrorLogged <=> fellBack[Len(fellBack)]

\* In one run a first call has returned a translation and the second call
\* has just fallen back.
C19_Witness ==
    /\ pc = "returned"
    /\ fellBack = <<FALSE, TRUE>>
    /\ RetriesExhausted
    /\ translated_list = texts
    /\ ErrorLogged

====
